---- MODULE Spec2Model ----
(***************************************************************************)
(* Model of the job scheduler of backend/app/services/music_service.py:    *)
(* MusicService.generate_task / cancel_job, the admission queue job_queue, *)
(* the cancellation registry active_jobs, the gate gpu_lock (an            *)
(* asyncio.Lock) and the job records of backend/app/models.py.             *)
(*                                                                         *)
(* generate_task is a coroutine run on one event loop.  It can be          *)
(* suspended at two places only: in `async with self.gpu_lock` (line 127)  *)
(* when the lock is not free, and in `await loop.run_in_executor(...)`     *)
(* (line 336).  Everything between two suspension points is one atomic     *)
(* step of the event loop and is modelled as one action.  The pipeline     *)
(* call itself runs in an executor thread, concurrently with the loop.     *)
(***************************************************************************)
EXTENDS Integers, Sequences, FiniteSets, TLC

\* ---- bounds ----------------------------------------------------------------
NumJobs == 3
NumCheckpoints == 1
MaxFaults == 1
\* jobs submitted in the runs with collaborator faults (SpecFaults)
NumFaultJobs == 2

\* channels subscribe() creates and messages published (SpecEvents)
MaxChannels == 2
MaxPublish == 3
\* accelerators and their capacities (SpecPlacement)
MaxGpus == 3
MaxCapacity == 4
\* concurrent calls of initialize() (SpecInit)
NumInitCalls == 2
\* jobs under fair scheduling (SpecLive)
NumLiveJobs == 2
\* progress callbacks of one engine run (SpecProgress)
MaxProgress == 2
\* longest reference clip, in tenths of a second (SpecWindow)
MaxClipTenths == 200

\* ---- program constants -----------------------------------------------------
\* asyncio.Queue(): maxsize 0, an unbounded queue
QueueMaxsize == 0
\* style_influence is a percentage
MaxInfluence == 100
\* max_segment_sec = 10.0, the floor 1.0, the default 60.0 and the fallback
\* 10.0 of muq_segment_sec, in tenths of a second
MaxSegmentTenths == 100
MinSegmentTenths == 10
DefaultSegmentTenths == 600
FallbackSegmentTenths == 100

Jobs == 1..NumJobs
\* the job whose request is varied in SpecPrep and SpecWindow
PrepJob == 1
Channels == 1..MaxChannels
NoJob == 0
FaultJobs == 1..NumFaultJobs
LiveJobs == 1..NumLiveJobs
InitCalls == 1..NumInitCalls

VARIABLES
    db,            \* the Job table: db[j] = [status, error_msg]
    job_queue,     \* MusicService.job_queue
    active_jobs,   \* MusicService.active_jobs: per id "absent" (no key), or its abort_event "clear"/"set"
    gpu_lock,      \* MusicService.gpu_lock: [locked, waiters]
    pc,            \* where the generate_task coroutine of each job stands
    task_result,   \* how each generate_task ended: returned or raised
    exit_path,     \* the exit path each generate_task took
    pipeline_run,  \* the _run_pipeline call in the executor thread
    published,     \* per job id, the lifecycle events published for it, in order
    queue_msg,     \* per job id, the latest job_queue event published for it
    writes,        \* per job id, the status writes generate_task committed
    registered,    \* ids for which an abort_event was ever put in active_jobs
    invoked,       \* ids for which _run_pipeline was ever handed to the executor
    deleted_in,    \* per job id, the task's position when its record was deleted
    cleanup_warned,\* ids whose memory cleanup raised (and was logged)
    fault_count,   \* steps of generate_task in which a collaborator failed
    arrival,       \* ids in the order they were appended to job_queue
    acquired,      \* ids in the order their task acquired gpu_lock
    request,       \* per job id, its GenerationRequest and what its collaborators answer
    auto_title,    \* per job id, the auto_title generate_task resolved
    pipeline_inputs,\* what the latest _run_pipeline passed to self.pipeline(...)
    subscribers,   \* EventManager.subscribers: the registered channels, in order
    queues,        \* per channel, the content of its asyncio.Queue
    log,           \* every message handed to the channels so far, in order
    sub_at,        \* per channel, the length of log when subscribe() created it
    unsub_at,      \* per channel, the length of log when it was unsubscribed
    gpu_memories,  \* the capacity of each accelerator torch.cuda reports
    gpu_mode,      \* MusicService.gpu_mode
    pipeline,      \* MusicService.pipeline: unset, or the from_pretrained arguments
    artifacts,     \* per job id, what completion persisted and what its event carried
    loop_ready,    \* the event loop's queue of callbacks scheduled by the worker thread
    is_loading,    \* MusicService.is_loading
    init_pc        \* where each call of initialize() stands

vars == <<db, job_queue, active_jobs, gpu_lock, pc, task_result, exit_path,
          pipeline_run, published, queue_msg, writes, registered, invoked,
          deleted_in, cleanup_warned, fault_count, arrival, acquired,
          request, auto_title, pipeline_inputs, subscribers, queues, log, sub_at,
          unsub_at, gpu_memories, gpu_mode, pipeline,
          artifacts, loop_ready, is_loading, init_pc>>

\* the state the scheduler's actions never touch: the requests as submitted,
\* the EventManager's channels and the loaded pipeline
static_vars == <<request, subscribers, queues, log, sub_at, unsub_at,
                 gpu_memories, gpu_mode, pipeline, loop_ready, is_loading, init_pc>>

\* ---- list helpers (Python list semantics) -----------------------------------
Range(s) == {s[i] : i \in 1..Len(s)}

\* list.index(x) + 1, or 0 when x is absent
IndexOf(s, x) ==
    IF x \in Range(s) THEN CHOOSE i \in 1..Len(s) : s[i] = x /\ \A k \in 1..(i-1) : s[k] # x
    ELSE 0

\* a removal that leaves the list as it was
Remove_noop(s, x) == s

\* list.remove(x): drops the first occurrence
Remove(s, x) ==
    LET i == IndexOf(s, x)
    IN  IF i = 0 THEN s ELSE SubSeq(s, 1, i-1) \o SubSeq(s, i+1, Len(s))

\* ---- JobStatus and events ---------------------------------------------------
QUEUED == "queued"
PROCESSING == "processing"
COMPLETED == "completed"
FAILED == "failed"
\* not a JobStatus: no row for the id (never created / deleted)
NOROW == "none"
DELETED == "deleted"

\* a row object held across the wait instead of being re-fetched
RowExists_stale(d, j) == d[j].status # NOROW

\* select(Job).where(Job.id == job_id) finds a row
RowExists(d, j) == d[j].status \notin {NOROW, DELETED}

Ev(type, status, position, total, error) ==
    [type |-> type, status |-> status, position |-> position, total |-> total, error |-> error]

\* ---- faults of the collaborators (store, preparation steps, cleanup) --------
Faults == [processing_write : BOOLEAN, prep : BOOLEAN, completed_write : BOOLEAN,
           failed_write : BOOLEAN, cleanup : BOOLEAN]
NoFault == [processing_write |-> FALSE, prep |-> FALSE, completed_write |-> FALSE,
            failed_write |-> FALSE, cleanup |-> FALSE]

\* ---- MusicService.get_queue_position / _broadcast_queue_update --------------
get_queue_position(q, j) == IndexOf(q, j)

\* a broadcast that publishes nothing
broadcast_queue_update_skipped(qm, q) == qm

\* one job_queue event per member, with its position and the total
broadcast_queue_update(qm, q) ==
    [j \in Jobs |-> IF j \in Range(q) THEN <<get_queue_position(q, j), Len(q)>> ELSE qm[j]]

\* ---- asyncio.Lock -----------------------------------------------------------
\* a lock that lets a newcomer take an unlocked lock past the waiters
LockFree_barging(l) == ~l.locked

\* acquire() takes the lock at once only when it is unlocked and nobody waits
LockFree(l) == ~l.locked /\ l.waiters = <<>>

\* a lock that wakes the waiter that arrived last
wake_up_last(ws) == IF ws = <<>> THEN ws ELSE [ws EXCEPT ![Len(ws)].done = TRUE]

\* _wake_up_first: the future of the first waiter is completed
wake_up_first(ws) == IF ws = <<>> THEN ws ELSE [ws EXCEPT ![1].done = TRUE]

\* a release that unlocks and wakes nobody
LockRelease_no_wake(l) == [locked |-> FALSE, waiters |-> l.waiters]

\* release(): unlock and wake the first waiter
LockRelease(l) == [locked |-> FALSE, waiters |-> wake_up_first(l.waiters)]

WaiterIndex(ws, j) ==
    IF \E i \in 1..Len(ws) : ws[i].task = j
    THEN CHOOSE i \in 1..Len(ws) : ws[i].task = j
    ELSE 0

\* a resumed waiter that leaves waiters without taking the lock
LockResume_unlocked(l, j) ==
    LET i == WaiterIndex(l.waiters, j)
    IN  [locked |-> FALSE,
         waiters |-> SubSeq(l.waiters, 1, i-1) \o SubSeq(l.waiters, i+1, Len(l.waiters))]

\* the waiter whose future completed resumes: it leaves waiters and locks
LockResume(l, j) ==
    LET i == WaiterIndex(l.waiters, j)
    IN  [locked |-> TRUE,
         waiters |-> SubSeq(l.waiters, 1, i-1) \o SubSeq(l.waiters, i+1, Len(l.waiters))]

\* ---- GenerationRequest and the answers of the collaborators -----------------
\* llm_model / parent_job_id / ref_audio_id: whether the request names one;
\* models: what LLMService.get_models does; title: what generate_title does;
\* token_file: the parent's saved tokens; ref_file, ref_info: the reference
\* clip and torchaudio.info on it; clip_tenths: the clip's duration
DefaultRequest ==
    [llm_model |-> FALSE, models |-> "some", title |-> "ok",
     parent_job_id |-> FALSE, token_file |-> "missing",
     ref_audio_id |-> FALSE, ref_file |-> "missing", ref_info |-> "ok",
     style_influence |-> MaxInfluence, clip_tenths |-> 0]

NoInputs == [job |-> NoJob, history_tokens |-> "none", ref_audio |-> FALSE, muq_segment_sec |-> 0]

\* torch.device(type) / torch.device(f"{type}:{index}"); index -1 stands for None
TorchDevice(type, index) == [type |-> type, index |-> index]

NoPipeline == [loaded |-> FALSE, device |-> TorchDevice("none", -1),
               codec_device |-> TorchDevice("none", -1), lazy_load |-> FALSE]

\* ---- generate_task, lines 162-192: the title, best effort -------------------
\* lines 171-188: the requested model, else the first local model, else
\* "llama3" (also when the lookup raises)
model_to_use(r) ==
    IF r.llm_model THEN "requested"
    ELSE IF r.models = "some" THEN "first_local" ELSE "llama3"

\* a title step without its try/except: a failing generate_title propagates
TitleStep_unguarded(r) ==
    [title |-> "generated", model_to_use |-> model_to_use(r), raised |-> r.title = "raises"]

\* lines 162-192: auto_title starts as "Untitled Track" and is replaced only
\* by a title generate_title returned; the except at line 191 swallows the rest
TitleStep(r) ==
    [title |-> IF r.title = "raises" THEN "Untitled Track" ELSE "generated",
     model_to_use |-> model_to_use(r), raised |-> FALSE]

\* ---- _run_pipeline, lines 228-243: the parent's continuation state ---------
\* __new__ (lines 26-35) sets pipeline, gpu_lock, is_loading, active_jobs,
\* gpu_mode and job_queue, and nothing else sets an attribute `device`
HasDeviceAttribute == FALSE

\* torch.load(..., map_location=self.device) at line 236: evaluating
\* self.device raises AttributeError when the attribute is missing
TorchLoad(r) ==
    IF ~HasDeviceAttribute \/ r.token_file = "unreadable" THEN "raises" ELSE "parent_state"

\* lines 228-243: None without a parent, with a missing file (warning), and
\* when loading raises (except at line 242)
history_tokens(r) ==
    IF ~r.parent_job_id THEN "none"
    ELSE IF r.token_file = "missing" THEN "none"
    ELSE IF TorchLoad(r) = "raises" THEN "none"
    ELSE TorchLoad(r)

\* ---- _run_pipeline, lines 256-282: the reference clip and its window -------
Min2(a, b) == IF a < b THEN a ELSE b
Max2(a, b) == IF a > b THEN a ELSE b

\* the clamps applied in the other order: floor first, then the duration
segment_clamp_floor_first(influence, clip) ==
    Min2(Max2(MinSegmentTenths, (influence * MaxSegmentTenths) \div MaxInfluence), clip)

\* lines 274-277: (style_influence / 100.0) * max_segment_sec, then
\* min(., audio_duration_sec), then max(1.0, .); in tenths of a second
segment_clamp(influence, clip) ==
    Max2(MinSegmentTenths, Min2((influence * MaxSegmentTenths) \div MaxInfluence, clip))

\* lines 259-261: ref_audio_path is set only when the file exists
ref_audio_path(r) == r.ref_audio_id /\ r.ref_file = "found"

\* lines 258-282: 60 s without a clip, 10 s when torchaudio.info raises
muq_segment_sec(r) ==
    IF ~ref_audio_path(r) THEN DefaultSegmentTenths
    ELSE IF r.ref_info = "raises" THEN FallbackSegmentTenths
    ELSE segment_clamp(r.style_influence, r.clip_tenths)

\* lines 284-312: what _run_pipeline hands to self.pipeline(...)
RunPipelineInputs(j, r) ==
    [job |-> j, history_tokens |-> history_tokens(r), ref_audio |-> ref_audio_path(r),
     muq_segment_sec |-> muq_segment_sec(r)]

\* ---- generate_task, lines 345-355: what completion persists and publishes ----
\* f"/audio/{output_filename}" with output_filename = f"song_{job_id}.mp3"
AudioPath(dir, j) == [dir |-> dir, job |-> j]

\* lines 345-347: job.audio_path and job.title as committed
completed_row(j, t) == [audio_path |-> AudioPath("/audio/", j), title |-> t.title]

\* an event carrying save_path, the place on disk, instead of the row's path
completed_event_payload_save_path(row) ==
    [final_audio_path |-> AudioPath("backend/generated_audio/", row.audio_path.job),
     final_title |-> row.title]

\* lines 351-355: final_audio_path and final_title are read back from the row
completed_event_payload(row) ==
    [final_audio_path |-> row.audio_path, final_title |-> row.title]

NoArtifacts ==
    [row |-> [audio_path |-> AudioPath("", NoJob), title |-> ""],
     payload |-> [final_audio_path |-> AudioPath("", NoJob), final_title |-> ""]]

\* MusicService.__new__ and EventManager.__new__
InitState ==
    /\ db = [j \in Jobs |-> [status |-> NOROW, error_msg |-> ""]]
    /\ job_queue = <<>>
    /\ active_jobs = [j \in Jobs |-> "absent"]
    /\ gpu_lock = [locked |-> FALSE, waiters |-> <<>>]
    /\ pc = [j \in Jobs |-> "idle"]
    /\ task_result = [j \in Jobs |-> "none"]
    /\ exit_path = [j \in Jobs |-> "none"]
    /\ pipeline_run = [job |-> NoJob, cp |-> 0, state |-> "idle"]
    /\ published = [j \in Jobs |-> <<>>]
    /\ queue_msg = [j \in Jobs |-> <<0, 0>>]
    /\ writes = [j \in Jobs |-> <<>>]
    /\ registered = {}
    /\ invoked = {}
    /\ deleted_in = [j \in Jobs |-> "none"]
    /\ cleanup_warned = {}
    /\ fault_count = 0
    /\ arrival = <<>>
    /\ acquired = <<>>
    /\ auto_title = [j \in Jobs |-> [title |-> "", model_to_use |-> ""]]
    /\ pipeline_inputs = NoInputs
    /\ subscribers = <<>>
    /\ queues = <<>>
    /\ log = <<>>
    /\ sub_at = <<>>
    /\ unsub_at = [c \in Channels |-> <<>>]
    /\ gpu_mode = "single"
    /\ pipeline = NoPipeline
    /\ artifacts = [j \in Jobs |-> NoArtifacts]
    /\ loop_ready = <<>>
    /\ is_loading = FALSE
    /\ init_pc = [c \in InitCalls |-> "idle"]

\* the state after construction, with default requests and one accelerator
Init ==
    /\ InitState
    /\ request = [j \in Jobs |-> DefaultRequest]
    /\ gpu_memories = <<MaxCapacity>>

\* ---- the store: record creation and deletion by the API layer ---------------
\* a Job row is created with the default status QUEUED before its task is started;
\* ids are opaque, so the jobs are numbered in the order they are submitted
CreateJob(j) ==
    /\ db[j].status = NOROW
    /\ \A k \in Jobs : k < j => pc[k] # "idle"
    /\ db' = [db EXCEPT ![j] = [status |-> QUEUED, error_msg |-> ""]]
    /\ UNCHANGED <<job_queue, active_jobs, gpu_lock, pc, task_result, exit_path,
                   pipeline_run, published, queue_msg, writes, registered, invoked,
                   deleted_in, cleanup_warned, fault_count, arrival, acquired,
                   auto_title, pipeline_inputs, artifacts, static_vars>>

\* an external actor deletes the row while the job's task has not ended
\* (a deletion after the task ended no longer concerns the scheduler)
DeleteJob(j) ==
    /\ RowExists(db, j)
    /\ pc[j] # "done"
    /\ db' = [db EXCEPT ![j].status = DELETED]
    /\ deleted_in' = [deleted_in EXCEPT ![j] = pc[j]]
    /\ UNCHANGED <<job_queue, active_jobs, gpu_lock, pc, task_result, exit_path,
                   pipeline_run, published, queue_msg, writes, registered, invoked,
                   cleanup_warned, fault_count, arrival, acquired,
                   auto_title, pipeline_inputs, artifacts, static_vars>>

\* a handler that persists Failed and publishes nothing
FailureHandler_silent(j, d, w, p, err, f) ==
    IF ~RowExists(d, j)
    THEN [db |-> d, writes |-> w, pub |-> p, result |-> "raised", exit |-> "handler_no_row"]
    ELSE IF f.failed_write
    THEN [db |-> d, writes |-> w, pub |-> p, result |-> "raised", exit |-> "handler_write_failed"]
    ELSE [db |-> [d EXCEPT ![j] = [status |-> FAILED, error_msg |-> err]],
          writes |-> Append(w, <<d[j].status, FAILED>>),
          pub |-> p, result |-> "returned", exit |-> "failed"]

\* ---- generate_task, lines 360-368: the except handler -----------------------
\* d, w, p: the table, the job's write log and event log when the handler starts
FailureHandler(j, d, w, p, err, f) ==
    IF ~RowExists(d, j)
    THEN \* .one() raises NoResultFound
         [db |-> d, writes |-> w, pub |-> p, result |-> "raised", exit |-> "handler_no_row"]
    ELSE IF f.failed_write
    THEN [db |-> d, writes |-> w, pub |-> p, result |-> "raised", exit |-> "handler_write_failed"]
    ELSE [db |-> [d EXCEPT ![j] = [status |-> FAILED, error_msg |-> err]],
          writes |-> Append(w, <<d[j].status, FAILED>>),
          pub |-> Append(p, Ev("job_update", FAILED, 0, 0, err)),
          result |-> "returned", exit |-> "failed"]

\* a completion whose publish raises after the commit, so that the handler runs
Completion_then_handler(j, d, w, p, f) ==
    IF ~RowExists(d, j)
    THEN [db |-> d, writes |-> w, pub |-> p, result |-> "returned", exit |-> "deleted_during_generation"]
    ELSE FailureHandler(j, [d EXCEPT ![j].status = COMPLETED],
                        Append(w, <<d[j].status, COMPLETED>>), p, "publish_error", f)

\* ---- generate_task, lines 338-358: completion after the engine returned -----
Completion(j, d, w, p, f) ==
    IF ~RowExists(d, j)
    THEN [db |-> d, writes |-> w, pub |-> p, result |-> "returned", exit |-> "deleted_during_generation"]
    ELSE IF f.completed_write
    THEN FailureHandler(j, d, w, p, "store_error", f)
    ELSE [db |-> [d EXCEPT ![j] = [status |-> COMPLETED, error_msg |-> d[j].error_msg]],
          writes |-> Append(w, <<d[j].status, COMPLETED>>),
          pub |-> p \o <<Ev("job_update", COMPLETED, 0, 0, ""), Ev("job_progress", "100", 0, 0, "")>>,
          result |-> "returned", exit |-> "completed"]

\* the token removed at the end of the try block instead of in finally
finally_skipped_on_raise(a, j, result) ==
    IF result = "raised" THEN a ELSE [a EXCEPT ![j] = "absent"]

\* ---- generate_task, lines 370-373: finally removes the token ----------------
finally_active_jobs(a, j, result) == [a EXCEPT ![j] = "absent"]

\* ---- generate_task, lines 128-336: from the acquired gate to the engine -----
\* q, qm, p: job_queue, queue_msg and the job's event log when the gate is
\* acquired; lk: the lock as acquired.  Ends either by leaving `async with`
\* (the lock is released) or suspended in run_in_executor (the lock stays held).
Admission(j, q, qm, p, lk, f) ==
    LET inq == j \in Range(q)
        q2  == IF inq THEN Remove(q, j) ELSE q
        qm2 == IF inq THEN broadcast_queue_update(qm, q2) ELSE qm
        pw  == Append(writes[j], <<db[j].status, PROCESSING>>)
        dp  == [db EXCEPT ![j].status = PROCESSING]
        h   == FailureHandler(j, dp, pw, p, "prep_error", f)
    IN  /\ job_queue' = q2
        /\ queue_msg' = qm2
        /\ acquired' = Append(acquired, j)
        /\ IF ~RowExists(db, j) \/ f.processing_write
           THEN \* lines 140-142 / 148-150: return before the inner try
                /\ pc' = [pc EXCEPT ![j] = "done"]
                /\ task_result' = [task_result EXCEPT ![j] = "returned"]
                /\ exit_path' = [exit_path EXCEPT ![j] =
                       IF ~RowExists(db, j) THEN "deleted_before_start" ELSE "processing_write_failed"]
                /\ published' = [published EXCEPT ![j] = p]
                /\ gpu_lock' = LockRelease(lk)
                /\ UNCHANGED <<db, active_jobs, pipeline_run, writes, registered, invoked,
                               cleanup_warned, auto_title, pipeline_inputs>>
           ELSE IF f.prep \/ TitleStep(request[j]).raised
           THEN \* a step of lines 163-333 raises: handler, then finally
                /\ db' = h.db
                /\ writes' = [writes EXCEPT ![j] = h.writes]
                /\ published' = [published EXCEPT ![j] = h.pub]
                /\ pc' = [pc EXCEPT ![j] = "done"]
                /\ task_result' = [task_result EXCEPT ![j] = h.result]
                /\ exit_path' = [exit_path EXCEPT ![j] = h.exit]
                /\ registered' = registered \cup {j}
                /\ active_jobs' = finally_active_jobs([active_jobs EXCEPT ![j] = "clear"], j, h.result)
                /\ cleanup_warned' = IF f.cleanup THEN cleanup_warned \cup {j} ELSE cleanup_warned
                /\ gpu_lock' = LockRelease(lk)
                /\ UNCHANGED <<pipeline_run, invoked, auto_title, pipeline_inputs>>
           ELSE \* lines 144-336: mark PROCESSING, register the token, start the engine
                /\ db' = dp
                /\ writes' = [writes EXCEPT ![j] = pw]
                /\ active_jobs' = [active_jobs EXCEPT ![j] = "clear"]
                /\ registered' = registered \cup {j}
                /\ published' = [published EXCEPT ![j] =
                       p \o <<Ev("job_update", PROCESSING, 0, 0, ""), Ev("job_progress", "0", 0, 0, "")>>]
                /\ auto_title' = [auto_title EXCEPT ![j] =
                       [title |-> TitleStep(request[j]).title,
                        model_to_use |-> TitleStep(request[j]).model_to_use]]
                /\ pipeline_inputs' = RunPipelineInputs(j, request[j])
                /\ pipeline_run' = [job |-> j, cp |-> 0, state |-> "running"]
                /\ invoked' = invoked \cup {j}
                /\ pc' = [pc EXCEPT ![j] = "engine"]
                /\ gpu_lock' = lk
                /\ UNCHANGED <<task_result, exit_path, cleanup_warned>>

\* ---- generate_task, lines 117-127: submit -----------------------------------
Submit(j, f) ==
    /\ pc[j] = "idle"
    /\ db[j].status # NOROW
    /\ LET q1  == Append(job_queue, j)
           p1  == Append(published[j], Ev("job_queued", "", get_queue_position(q1, j), Len(q1), ""))
           qm1 == broadcast_queue_update(queue_msg, q1)
       IN  /\ arrival' = Append(arrival, j)
           /\ IF LockFree(gpu_lock)
              THEN Admission(j, q1, qm1, p1, [gpu_lock EXCEPT !.locked = TRUE], f)
              ELSE /\ job_queue' = q1
                   /\ queue_msg' = qm1
                   /\ published' = [published EXCEPT ![j] = p1]
                   /\ gpu_lock' = [gpu_lock EXCEPT !.waiters = Append(@, [task |-> j, done |-> FALSE])]
                   /\ pc' = [pc EXCEPT ![j] = "waiting"]
                   /\ UNCHANGED <<db, active_jobs, task_result, exit_path, pipeline_run, writes,
                                  registered, invoked, cleanup_warned, acquired,
                                  auto_title, pipeline_inputs>>
    /\ fault_count' = IF f = NoFault THEN fault_count ELSE fault_count + 1
    /\ UNCHANGED <<deleted_in, artifacts, static_vars>>

\* ---- generate_task resumed in `async with self.gpu_lock` --------------------
Admit(j, f) ==
    /\ pc[j] = "waiting"
    /\ LET i == WaiterIndex(gpu_lock.waiters, j)
       IN  i # 0 /\ gpu_lock.waiters[i].done
    /\ Admission(j, job_queue, queue_msg, published[j], LockResume(gpu_lock, j), f)
    /\ fault_count' = IF f = NoFault THEN fault_count ELSE fault_count + 1
    /\ UNCHANGED <<deleted_in, arrival, artifacts, static_vars>>

\* ---- _run_pipeline in the executor thread (lines 218-329) -------------------
\* the engine polls abort_event at a checkpoint: raises if set, else goes on
PipelineCheckpoint ==
    /\ pipeline_run.state = "running"
    /\ pipeline_run.cp < NumCheckpoints
    /\ pipeline_run' =
         IF active_jobs[pipeline_run.job] = "set"
         THEN [pipeline_run EXCEPT !.state = "abort"]
         ELSE [pipeline_run EXCEPT !.cp = @ + 1]
    /\ UNCHANGED <<db, job_queue, active_jobs, gpu_lock, pc, task_result, exit_path,
                   published, queue_msg, writes, registered, invoked,
                   deleted_in, cleanup_warned, fault_count, arrival, acquired,
                   auto_title, pipeline_inputs, artifacts, static_vars>>

\* past its last checkpoint the engine returns its output
PipelineReturn ==
    /\ pipeline_run.state = "running"
    /\ pipeline_run.cp = NumCheckpoints
    /\ pipeline_run' = [pipeline_run EXCEPT !.state = "returned"]
    /\ UNCHANGED <<db, job_queue, active_jobs, gpu_lock, pc, task_result, exit_path,
                   published, queue_msg, writes, registered, invoked,
                   deleted_in, cleanup_warned, fault_count, arrival, acquired,
                   auto_title, pipeline_inputs, artifacts, static_vars>>

\* the engine (or a step of _run_pipeline) raises an error of its own
PipelineRaise ==
    /\ pipeline_run.state = "running"
    /\ pipeline_run' = [pipeline_run EXCEPT !.state = "error"]
    /\ UNCHANGED <<db, job_queue, active_jobs, gpu_lock, pc, task_result, exit_path,
                   published, queue_msg, writes, registered, invoked,
                   deleted_in, cleanup_warned, fault_count, arrival, acquired,
                   auto_title, pipeline_inputs, artifacts, static_vars>>

\* ---- generate_task resumed after run_in_executor (lines 336-385) ------------
Resume(j, f) ==
    /\ pc[j] = "engine"
    /\ pipeline_run.job = j
    /\ pipeline_run.state \in {"returned", "abort", "error"}
    /\ LET r == IF pipeline_run.state = "returned"
                THEN Completion(j, db, writes[j], published[j], f)
                ELSE FailureHandler(j, db, writes[j], published[j],
                                    IF pipeline_run.state = "abort" THEN "abort" ELSE "engine_error", f)
       IN  /\ db' = r.db
           /\ writes' = [writes EXCEPT ![j] = r.writes]
           /\ published' = [published EXCEPT ![j] = r.pub]
           /\ task_result' = [task_result EXCEPT ![j] = r.result]
           /\ exit_path' = [exit_path EXCEPT ![j] = r.exit]
           /\ artifacts' = IF r.exit = "completed"
                            THEN [artifacts EXCEPT ![j] =
                                    [row |-> completed_row(j, auto_title[j]),
                                     payload |-> completed_event_payload(completed_row(j, auto_title[j]))]]
                            ELSE artifacts
           \* finally (lines 370-385), then the lock is released by `async with`
           /\ active_jobs' = finally_active_jobs(active_jobs, j, r.result)
    /\ cleanup_warned' = IF f.cleanup THEN cleanup_warned \cup {j} ELSE cleanup_warned
    /\ gpu_lock' = LockRelease(gpu_lock)
    /\ pc' = [pc EXCEPT ![j] = "done"]
    /\ pipeline_run' = [job |-> NoJob, cp |-> 0, state |-> "idle"]
    /\ fault_count' = IF f = NoFault THEN fault_count ELSE fault_count + 1
    /\ UNCHANGED <<job_queue, queue_msg, registered, invoked, deleted_in,
                   arrival, acquired, auto_title, pipeline_inputs, static_vars>>

\* ---- MusicService.cancel_job (lines 387-399) --------------------------------
cancel_job_returns(q, a, j) == j \in Range(q) \/ a[j] # "absent"

cancel_job(j) ==
    /\ IF j \in Range(job_queue)
       THEN /\ job_queue' = Remove(job_queue, j)
            /\ queue_msg' = broadcast_queue_update(queue_msg, Remove(job_queue, j))
            /\ UNCHANGED active_jobs
       ELSE IF active_jobs[j] # "absent"
       THEN /\ active_jobs' = [active_jobs EXCEPT ![j] = "set"]
            /\ UNCHANGED <<job_queue, queue_msg>>
       ELSE \* return False
            UNCHANGED <<job_queue, queue_msg, active_jobs>>
    /\ UNCHANGED <<db, gpu_lock, pc, task_result, exit_path, pipeline_run, published,
                   writes, registered, invoked, deleted_in, cleanup_warned, fault_count, arrival, acquired,
                   auto_title, pipeline_inputs, artifacts, static_vars>>

\* ---- the steps of generate_task, without and with collaborator faults -------
generate_task_submit(j) == Submit(j, NoFault)
generate_task_admit(j) == Admit(j, NoFault)
generate_task_resume(j) == Resume(j, NoFault)

\* the faults that can strike between the acquired gate and the engine call:
\* the PROCESSING write fails, or a preparation step raises (and then possibly
\* the handler's write and the cleanup too)
AdmissionFaults ==
    {f \in Faults : /\ ~f.completed_write
                    /\ f.processing_write # f.prep
                    /\ f.processing_write => ~f.failed_write /\ ~f.cleanup}

\* the faults that can strike after the engine call
ResumeFaults == {f \in Faults \ {NoFault} : ~f.processing_write /\ ~f.prep}

generate_task_submit_fault(j) ==
    /\ fault_count < MaxFaults
    /\ LockFree(gpu_lock)
    /\ \E f \in AdmissionFaults : Submit(j, f)

generate_task_admit_fault(j) ==
    /\ fault_count < MaxFaults
    /\ \E f \in AdmissionFaults : Admit(j, f)

generate_task_resume_fault(j) ==
    /\ fault_count < MaxFaults
    /\ \E f \in ResumeFaults : Resume(j, f)

Next ==
    \/ \E j \in Jobs : CreateJob(j)
    \/ \E j \in Jobs : DeleteJob(j)
    \/ \E j \in Jobs : generate_task_submit(j)
    \/ \E j \in Jobs : generate_task_admit(j)
    \/ PipelineCheckpoint
    \/ PipelineReturn
    \/ PipelineRaise
    \/ \E j \in Jobs : generate_task_resume(j)
    \/ \E j \in Jobs : cancel_job(j)

Spec == Init /\ [][Next]_vars

NextFaults ==
    \/ \E j \in FaultJobs : CreateJob(j)
    \/ \E j \in FaultJobs : DeleteJob(j)
    \/ \E j \in FaultJobs : generate_task_submit(j)
    \/ \E j \in FaultJobs : generate_task_admit(j)
    \/ PipelineCheckpoint
    \/ PipelineReturn
    \/ PipelineRaise
    \/ \E j \in FaultJobs : generate_task_resume(j)
    \/ \E j \in FaultJobs : cancel_job(j)
    \/ \E j \in FaultJobs : generate_task_submit_fault(j)
    \/ \E j \in FaultJobs : generate_task_admit_fault(j)
    \/ \E j \in FaultJobs : generate_task_resume_fault(j)

SpecFaults == Init /\ [][NextFaults]_vars

\* ======================= the scheduler under fair scheduling ==================
NextLive ==
    \/ \E j \in LiveJobs : CreateJob(j)
    \/ \E j \in LiveJobs : DeleteJob(j)
    \/ \E j \in LiveJobs : generate_task_submit(j)
    \/ \E j \in LiveJobs : generate_task_admit(j)
    \/ PipelineCheckpoint
    \/ PipelineReturn
    \/ PipelineRaise
    \/ \E j \in LiveJobs : generate_task_resume(j)
    \/ \E j \in LiveJobs : cancel_job(j)

\* the event loop runs every task that is ready (a woken waiter of gpu_lock, a
\* task whose run_in_executor future is done), and every engine call goes on
\* until it returns or raises
Fairness ==
    /\ \A j \in LiveJobs : WF_vars(generate_task_admit(j))
    /\ \A j \in LiveJobs : WF_vars(generate_task_resume(j))
    /\ WF_vars(PipelineCheckpoint \/ PipelineReturn \/ PipelineRaise)

SpecLive == Init /\ [][NextLive]_vars /\ Fairness

\* ======================= engine progress through the event loop ===============
\* what the worker thread's and the loop's callback steps leave alone
progress_unchanged == <<db, job_queue, active_jobs, gpu_lock, pc, task_result, exit_path,
                        queue_msg, writes, registered, invoked, deleted_in, cleanup_warned,
                        fault_count, arrival, acquired, auto_title, pipeline_inputs,
                        artifacts, is_loading, init_pc, request, subscribers, queues, log,
                        sub_at, unsub_at, gpu_memories, gpu_mode, pipeline>>

\* a callback of the loop: a publish of job_progress, or the completion of the
\* run_in_executor future with the worker's outcome
Callback(kind, j, progress, outcome) ==
    [kind |-> kind, job |-> j, progress |-> progress, outcome |-> outcome]

\* a loop that runs the callback scheduled last first
call_soon_front(ready, cb) == <<cb>> \o ready

\* loop.call_soon_threadsafe: the callback goes to the end of the loop's queue
call_soon_threadsafe(ready, cb) == Append(ready, cb)

\* progress callbacks the worker has made for the running job
Emitted ==
    Cardinality({i \in 1..Len(loop_ready) : loop_ready[i].kind = "publish"})
    + Cardinality({i \in 1..Len(published[pipeline_run.job]) :
                     published[pipeline_run.job][i].status = "engine"})

\* lines 207-216: the engine calls _pipeline_callback in the worker thread
pipeline_callback ==
    /\ pipeline_run.state = "running"
    /\ Emitted < MaxProgress
    /\ loop_ready' = call_soon_threadsafe(loop_ready,
                         Callback("publish", pipeline_run.job, Emitted + 1, ""))
    /\ UNCHANGED <<pipeline_run, published, progress_unchanged>>

\* line 336: _run_pipeline ends in the worker thread; the executor's future
\* hands its outcome to the loop with call_soon_threadsafe
worker_done(outcome) ==
    /\ pipeline_run.state = "running"
    /\ loop_ready' = call_soon_threadsafe(loop_ready,
                         Callback("set_result", pipeline_run.job, 0, outcome))
    /\ pipeline_run' = [pipeline_run EXCEPT !.state = "finished"]
    /\ UNCHANGED <<published, progress_unchanged>>

\* the loop runs its first callback: event_manager.publish("job_progress", ...)
\* or the future's completion, which makes the awaiting task ready
loop_run_once ==
    /\ loop_ready # <<>>
    /\ LET cb == Head(loop_ready)
       IN  IF cb.kind = "publish"
           THEN /\ published' = [published EXCEPT ![cb.job] =
                                   Append(@, Ev("job_progress", "engine", cb.progress, 0, ""))]
                /\ UNCHANGED pipeline_run
           ELSE /\ pipeline_run' = [pipeline_run EXCEPT !.state = cb.outcome]
                /\ UNCHANGED published
    /\ loop_ready' = Tail(loop_ready)
    /\ UNCHANGED progress_unchanged

\* how the engine call can end: it returns, raises, or (only once the
\* abort_event is set) raises the abort
WorkerOutcomes ==
    {"returned", "error"} \cup
    (IF pipeline_run.job # NoJob /\ active_jobs[pipeline_run.job] = "set" THEN {"abort"} ELSE {})

NextProgress ==
    \/ \E j \in LiveJobs : CreateJob(j)
    \/ \E j \in LiveJobs : generate_task_submit(j)
    \/ \E j \in LiveJobs : generate_task_admit(j)
    \/ pipeline_callback
    \/ \E outcome \in WorkerOutcomes : worker_done(outcome)
    \/ loop_run_once
    \/ \E j \in LiveJobs : generate_task_resume(j)
    \/ \E j \in LiveJobs : cancel_job(j)

SpecProgress == Init /\ [][NextProgress]_vars

\* ======================= EventManager (lines 408-442) =========================
\* the state of MusicService, which the EventManager's methods leave alone
service_vars == <<db, job_queue, active_jobs, gpu_lock, pc, task_result, exit_path,
                  pipeline_run, published, queue_msg, writes, registered, invoked,
                  deleted_in, cleanup_warned, fault_count, arrival, acquired,
                  auto_title, pipeline_inputs, request, gpu_memories, gpu_mode, pipeline,
                  artifacts, loop_ready, is_loading, init_pc>>

\* the event types generate_task publishes through publish()
EventTypes == {"job_update", "job_progress"}

\* the message of the n-th call: f"event: {event_type}\ndata: {json.dumps(data)}\n\n"
Message(event_type, n) == [event |-> event_type, data |-> n]

\* asyncio.Queue.full(): never, for maxsize 0
ChannelFull(q) == QueueMaxsize > 0 /\ Len(q) >= QueueMaxsize

\* q.put_nowait(msg) inside try/except QueueFull: a full queue is skipped
put_nowait(q, msg) == IF ChannelFull(q) THEN q ELSE Append(q, msg)

\* a subscribe that hands the new channel what was published before
subscribe_replay ==
    /\ Len(queues) < MaxChannels
    /\ subscribers' = Append(subscribers, Len(queues) + 1)
    /\ queues' = Append(queues, log)
    /\ sub_at' = Append(sub_at, Len(log))
    /\ UNCHANGED <<log, unsub_at, service_vars>>

\* lines 417-420: a new empty queue, appended to subscribers
subscribe ==
    /\ Len(queues) < MaxChannels
    /\ subscribers' = Append(subscribers, Len(queues) + 1)
    /\ queues' = Append(queues, <<>>)
    /\ sub_at' = Append(sub_at, Len(log))
    /\ UNCHANGED <<log, unsub_at, service_vars>>

\* lines 422-424: removes the queue if it is registered, else does nothing
unsubscribe(c) ==
    /\ c \in 1..Len(queues)
    /\ IF c \in Range(subscribers)
       THEN /\ subscribers' = Remove(subscribers, c)
            /\ unsub_at' = [unsub_at EXCEPT ![c] = <<Len(log)>>]
       ELSE UNCHANGED <<subscribers, unsub_at>>
    /\ UNCHANGED <<queues, log, sub_at, service_vars>>

\* a loop that stops after its first subscriber
publish_puts_first_only(subs, qs, msg) ==
    [c \in 1..Len(qs) |-> IF subs # <<>> /\ c = subs[1] THEN put_nowait(qs[c], msg) ELSE qs[c]]

\* lines 429-433: the loop over self.subscribers
publish_puts(subs, qs, msg) ==
    [c \in 1..Len(qs) |-> IF c \in Range(subs) THEN put_nowait(qs[c], msg) ELSE qs[c]]

\* lines 426-433
publish(event_type) ==
    /\ Len(log) < MaxPublish
    /\ LET msg == Message(event_type, Len(log) + 1)
       IN  /\ queues' = publish_puts(subscribers, queues, msg)
           /\ log' = Append(log, msg)
    /\ UNCHANGED <<subscribers, sub_at, unsub_at, service_vars>>

\* a shutdown that reaches nobody
shutdown_puts_none(subs, qs, msg) == qs

\* lines 438-442: the loop over self.subscribers
shutdown_puts(subs, qs, msg) ==
    [c \in 1..Len(qs) |-> IF c \in Range(subs) THEN put_nowait(qs[c], msg) ELSE qs[c]]

\* lines 435-442: the shutdown message to every subscriber; subscribers is not touched
shutdown ==
    /\ Len(log) < MaxPublish
    /\ LET msg == Message("shutdown", Len(log) + 1)
       IN  /\ queues' = shutdown_puts(subscribers, queues, msg)
           /\ log' = Append(log, msg)
    /\ UNCHANGED <<subscribers, sub_at, unsub_at, service_vars>>

NextEvents ==
    \/ subscribe
    \/ \E c \in Channels : unsubscribe(c)
    \/ \E t \in EventTypes : publish(t)
    \/ shutdown

SpecEvents == Init /\ [][NextEvents]_vars

\* ======================= device placement (lines 49-113) ======================
\* the lists of capacities torch.cuda can report, gpu_memories[i+1] for GPU i
CapacityLists == UNION {[1..n -> 1..MaxCapacity] : n \in 0..MaxGpus}

\* max(gpu_memories, key=gpu_memories.get): the first key of greatest capacity
first_max_key(mem) ==
    CHOOSE i \in 1..Len(mem) :
        /\ \A k \in 1..Len(mem) : mem[k] <= mem[i]
        /\ \A k \in 1..(i-1) : mem[k] < mem[i]

\* a second max where min was meant
first_min_key_as_max(mem) == first_max_key(mem)

\* min(gpu_memories, key=gpu_memories.get): the first key of least capacity
first_min_key(mem) ==
    CHOOSE i \in 1..Len(mem) :
        /\ \A k \in 1..Len(mem) : mem[k] >= mem[i]
        /\ \A k \in 1..(i-1) : mem[k] > mem[i]

\* lines 49-93: gpu_mode and the arguments of from_pretrained
load_pipeline_multi_gpu(mem) ==
    IF Len(mem) < 2
    THEN [gpu_mode |-> "single",
          pipeline |-> [loaded |-> TRUE, device |-> TorchDevice("cuda", -1),
                        codec_device |-> TorchDevice("cpu", -1), lazy_load |-> TRUE]]
    ELSE [gpu_mode |-> "multi",
          pipeline |-> [loaded |-> TRUE,
                        device |-> TorchDevice("cuda", first_max_key(mem) - 1),
                        codec_device |-> TorchDevice("cuda", first_min_key(mem) - 1),
                        lazy_load |-> FALSE]]

\* lines 95-113: loads once; a second call returns at line 97
initialize ==
    /\ ~pipeline.loaded
    /\ gpu_mode' = load_pipeline_multi_gpu(gpu_memories).gpu_mode
    /\ pipeline' = load_pipeline_multi_gpu(gpu_memories).pipeline
    /\ UNCHANGED <<db, job_queue, active_jobs, gpu_lock, pc, task_result, exit_path,
                   pipeline_run, published, queue_msg, writes, registered, invoked,
                   deleted_in, cleanup_warned, fault_count, arrival, acquired,
                   auto_title, pipeline_inputs, artifacts, loop_ready, is_loading, init_pc,
                   request, subscribers, queues, log,
                   sub_at, unsub_at, gpu_memories>>

\* ---- initialize() step by step, under concurrent calls (lines 95-113) --------
\* what a step of initialize() leaves alone
init_unchanged == <<db, job_queue, active_jobs, gpu_lock, pc, task_result, exit_path,
                    pipeline_run, published, queue_msg, writes, registered, invoked,
                    deleted_in, cleanup_warned, fault_count, arrival, acquired,
                    auto_title, pipeline_inputs, artifacts, loop_ready,
                    request, subscribers, queues, log, sub_at, unsub_at, gpu_memories>>

\* a call that starts a load whatever is_loading says
initialize_call_unguarded(c) ==
    /\ init_pc[c] # "loading"
    /\ IF pipeline.loaded
       THEN /\ init_pc' = [init_pc EXCEPT ![c] = "skipped"]
            /\ UNCHANGED is_loading
       ELSE /\ is_loading' = TRUE
            /\ init_pc' = [init_pc EXCEPT ![c] = "loading"]
    /\ UNCHANGED <<pipeline, gpu_mode, init_unchanged>>

\* lines 96-104: return at once if loaded or loading; else set is_loading and
\* hand the load to the executor
initialize_call(c) ==
    /\ init_pc[c] # "loading"
    /\ IF pipeline.loaded \/ is_loading
       THEN /\ init_pc' = [init_pc EXCEPT ![c] = "skipped"]
            /\ UNCHANGED is_loading
       ELSE /\ is_loading' = TRUE
            /\ init_pc' = [init_pc EXCEPT ![c] = "loading"]
    /\ UNCHANGED <<pipeline, gpu_mode, init_unchanged>>

\* lines 104-108, 112-113: the load returned; pipeline is set, is_loading reset
initialize_loaded(c) ==
    /\ init_pc[c] = "loading"
    /\ pipeline' = load_pipeline_multi_gpu(gpu_memories).pipeline
    /\ gpu_mode' = load_pipeline_multi_gpu(gpu_memories).gpu_mode
    /\ is_loading' = FALSE
    /\ init_pc' = [init_pc EXCEPT ![c] = "returned"]
    /\ UNCHANGED init_unchanged

\* lines 109-113: from_pretrained raised (gpu_mode was set before it, lines
\* 55 and 83); the error is logged and raised again, is_loading reset
initialize_load_failed(c) ==
    /\ init_pc[c] = "loading"
    /\ gpu_mode' = load_pipeline_multi_gpu(gpu_memories).gpu_mode
    /\ is_loading' = FALSE
    /\ init_pc' = [init_pc EXCEPT ![c] = "raised"]
    /\ UNCHANGED <<pipeline, init_unchanged>>

NextInit ==
    \/ \E c \in InitCalls : initialize_call(c)
    \/ \E c \in InitCalls : initialize_loaded(c)
    \/ \E c \in InitCalls : initialize_load_failed(c)

InitPlacement ==
    /\ InitState
    /\ request = [j \in Jobs |-> DefaultRequest]
    /\ gpu_memories \in CapacityLists

NextPlacement == initialize

SpecPlacement == InitPlacement /\ [][NextPlacement]_vars

SpecInit == InitPlacement /\ [][NextInit]_vars

\* ======================= one job, over its request ============================
\* the (influence, duration) pairs checked together with the other inputs
SampleWindows == {<<0, 5>>, <<MaxInfluence \div 2, MaxClipTenths>>}

\* requests over the answers of the best-effort steps' collaborators
PrepRequests ==
    {r \in [llm_model : BOOLEAN, models : {"some", "empty", "raises"}, title : {"ok", "raises"},
             parent_job_id : BOOLEAN, token_file : {"present", "missing", "unreadable"},
             ref_audio_id : BOOLEAN, ref_file : {"found", "missing"}, ref_info : {"ok", "raises"},
             style_influence : {w[1] : w \in SampleWindows},
             clip_tenths : {w[2] : w \in SampleWindows}] :
        /\ r.llm_model => r.models = "some"
        /\ ~r.parent_job_id => r.token_file = "missing"
        /\ ~r.ref_audio_id => r.ref_file = "missing"
        /\ r.ref_file = "missing" => r.ref_info = "ok"
        /\ <<r.style_influence, r.clip_tenths>> \in SampleWindows
        /\ (r.ref_file = "missing" \/ r.ref_info = "raises") => r.style_influence = 0}

\* requests with a readable reference clip, over every influence and duration
WindowRequests ==
    {[DefaultRequest EXCEPT !.ref_audio_id = TRUE, !.ref_file = "found",
                            !.style_influence = i, !.clip_tenths = d] :
        i \in 0..MaxInfluence, d \in 0..MaxClipTenths}

InitPrep ==
    /\ InitState
    /\ gpu_memories = <<MaxCapacity>>
    /\ \E r \in PrepRequests :
          request = [j \in Jobs |-> IF j = PrepJob THEN r ELSE DefaultRequest]

InitWindow ==
    /\ InitState
    /\ gpu_memories = <<MaxCapacity>>
    /\ \E r \in WindowRequests :
          request = [j \in Jobs |-> IF j = PrepJob THEN r ELSE DefaultRequest]

\* the life of one job: created, submitted, run by the engine, possibly cancelled
NextPrep ==
    \/ CreateJob(PrepJob)
    \/ generate_task_submit(PrepJob)
    \/ PipelineCheckpoint
    \/ PipelineReturn
    \/ PipelineRaise
    \/ generate_task_resume(PrepJob)
    \/ cancel_job(PrepJob)

SpecPrep == InitPrep /\ [][NextPrep]_vars

\* the same job up to the engine call
NextWindow ==
    \/ CreateJob(PrepJob)
    \/ generate_task_submit(PrepJob)

SpecWindow == InitWindow /\ [][NextWindow]_vars

\* ======================= properties ===========================================
Processing == {j \in Jobs : db[j].status = PROCESSING}
Holders == {j \in Jobs : pc[j] = "engine"}
JobUpdates(j) == {i \in 1..Len(published[j]) : published[j][i].type = "job_update"}
\* the lock is held although no task is inside `async with`
GateLeaked == gpu_lock.locked /\ Holders = {}

\* C1: at most one job has persisted status Processing, and a job's status is
\* Processing only while its task holds the gate.
C1_AtMostOneProcessing ==
    /\ Cardinality(Processing) <= 1
    /\ Cardinality(Holders) <= 1
    /\ \A j \in Processing : pc[j] = "engine" /\ gpu_lock.locked

C1_Witness ==
    \E j, k \in Jobs : db[j].status = PROCESSING /\ pc[k] = "waiting" /\ db[k].status = QUEUED

\* C2: a job whose id cancel_job removed from job_queue while its task waited
\* for the gate (the only way a waiting task's id leaves job_queue) never
\* starts: no Processing status, no cancellation token, no engine call.
C2_CancelledQueuedNeverStarts ==
    [][\A j \in Jobs :
          (pc[j] = "waiting" /\ j \notin Range(job_queue))
          => /\ db'[j].status # PROCESSING
             /\ active_jobs'[j] = "absent"
             /\ j \notin invoked'
             /\ pc'[j] # "engine"]_vars

\* C3: a job whose token cancel_job has set, and whose row is not deleted,
\* never becomes Completed and ends Failed (the kind of error is left open
\* here), whenever during the engine run the signal was raised.
C3_SignalledNeverCompleted ==
    [][\A j \in Jobs :
          (active_jobs[j] = "set" /\ RowExists(db', j))
          => /\ db'[j].status # COMPLETED
             /\ pc'[j] = "done" => db'[j].status = FAILED]_vars

\* C4: the gate is acquired in the order of arrival in job_queue: the ids that
\* have acquired gpu_lock are, in order, the first arrivals (no overtaking).
C4_NoOvertaking ==
    /\ Len(acquired) <= Len(arrival)
    /\ \A i \in 1..Len(acquired) : acquired[i] = arrival[i]

C4_Witness ==
    /\ Len(acquired) >= 2
    /\ pc[acquired[2]] = "engine"
    /\ \E k \in Jobs : pc[k] = "waiting" /\ published[k][1].total = 2

\* C5: for every job waiting for the gate, get_queue_position is its submission
\* rank among the jobs currently waiting for the gate, and the job displayed at
\* position 1 is the next one to acquire the gate.
SubmissionRank(j) ==
    Cardinality({k \in Jobs : pc[k] = "waiting" /\ IndexOf(arrival, k) <= IndexOf(arrival, j)})

C5_PositionIsRank ==
    /\ \A j \in Jobs : pc[j] = "waiting" => get_queue_position(job_queue, j) = SubmissionRank(j)
    /\ job_queue # <<>> => gpu_lock.waiters # <<>> /\ gpu_lock.waiters[1].task = job_queue[1]

\* C6: for a job whose row was deleted before its task acquired the gate, the
\* scheduler writes nothing to the store, registers no token, never calls the
\* engine, publishes no job_update, and does not keep the gate.
C6_DeletedBeforeAdmission ==
    \A j \in Jobs :
        deleted_in[j] \in {"idle", "waiting"}
        => /\ writes[j] = <<>>
           /\ j \notin registered
           /\ j \notin invoked
           /\ JobUpdates(j) = {}
           /\ pc[j] # "engine"
           /\ pc[j] = "done" => ~GateLeaked /\ task_result[j] = "returned"

C6_Witness ==
    \E j \in Jobs : deleted_in[j] = "waiting" /\ pc[j] = "done" /\ Len(acquired) >= 2
                    /\ acquired[Len(acquired)] = j

\* C7: a task that found its row absent at a re-fetch (at admission, at
\* completion, or in the failure handler) ends without raising, and no
\* completed/failed event is published for it.
C7_StaleRecordIsBenign ==
    \A j \in Jobs :
        (pc[j] = "done" /\ deleted_in[j] # "none")
        => /\ task_result[j] = "returned"
           /\ \A i \in JobUpdates(j) : published[j][i].status \notin {COMPLETED, FAILED}

\* C8: once a generate_task has ended, on whatever path, its id is not in
\* active_jobs and the gate is not left locked; a token is registered only for
\* the task that holds the gate.
C8_NoLeak ==
    /\ \A j \in Jobs : pc[j] = "done" => active_jobs[j] = "absent"
    /\ \A j \in Jobs : active_jobs[j] # "absent" => pc[j] = "engine"
    /\ ~GateLeaked

C8_Witness ==
    \E j, k \in Jobs :
        /\ pc[j] = "done" /\ task_result[j] = "raised" /\ j \in cleanup_warned
        /\ registered = {j, k} /\ pc[k] = "engine"

\* C9: every status write of generate_task is a forward step: queued ->
\* processing, processing -> completed, or processing -> failed.
ForwardSteps == {<<QUEUED, PROCESSING>>, <<PROCESSING, COMPLETED>>, <<PROCESSING, FAILED>>}

C9_ForwardOnly ==
    \A j \in Jobs : \A i \in 1..Len(writes[j]) : writes[j][i] \in ForwardSteps

C9_Witness ==
    \E j, k \in Jobs :
        /\ writes[j] = <<<<QUEUED, PROCESSING>>, <<PROCESSING, COMPLETED>>>>
        /\ writes[k] = <<<<QUEUED, PROCESSING>>, <<PROCESSING, FAILED>>>>

\* C10: cancel_job returns True for every job that has been submitted and
\* whose generate_task has not ended.
C10_CancelAcceptedWhileUnfinished ==
    \A j \in Jobs :
        pc[j] \in {"waiting", "engine"} => cancel_job_returns(job_queue, active_jobs, j)

\* C12: the holder of the gate is not counted in the queue.  When b is
\* submitted while another job is in the engine and nobody waits, b's
\* job_queued event carries position 1 and total 1; when b, the only member of
\* job_queue, then gets the gate with its row present, its status becomes
\* Processing and job_queue becomes empty.
C12_HolderNotCounted ==
    [][\A b \in Jobs :
          /\ (/\ pc[b] = "idle" /\ pc'[b] # "idle"
               /\ Holders # {}
               /\ \A k \in Jobs : pc[k] # "waiting")
              => /\ pc'[b] = "waiting"
                 /\ published'[b] = <<Ev("job_queued", "", 1, 1, "")>>
          /\ (/\ pc[b] = "waiting" /\ pc'[b] # "waiting"
               /\ job_queue = <<b>>
               /\ RowExists(db, b))
              => /\ db'[b].status = PROCESSING
                 /\ pc'[b] = "engine"
                 /\ job_queue' = <<>>]_vars

C12_Witness ==
    \E a, b \in Jobs :
        /\ a # b
        /\ db[a].status = COMPLETED /\ pc[a] = "done"
        /\ published[b] # <<>>
        /\ published[b][1] = Ev("job_queued", "", 1, 1, "")
        /\ db[b].status = PROCESSING /\ pc[b] = "engine"
        /\ job_queue = <<>>

\* C13: for every job in job_queue, the position and total most recently
\* published for it are its current 1-based index and the current length of
\* job_queue (every action that changes job_queue ends with the broadcast).
C13_QueueEventsCurrent ==
    \A j \in Range(job_queue) :
        queue_msg[j] = <<IndexOf(job_queue, j), Len(job_queue)>>

C13_Witness ==
    \E j \in Range(job_queue) :
        /\ published[j][1].type = "job_queued" /\ published[j][1].position = 2
        /\ queue_msg[j] = <<1, 1>>

\* C14: when a step after the Processing mark raises (the engine fails or
\* aborts, a preparation step raises, the Completed write fails) while the row
\* exists, and the handler's own write succeeds, then in the step that ends
\* the task and releases the gate the row is Failed with the error's message
\* and exactly one failed job_update with that message has been published, as
\* the job's last event.
FailedUpdates(p) == {i \in 1..Len(p) : p[i].type = "job_update" /\ p[i].status = FAILED}

C14_FailurePersistedAndPublished ==
    [][\A j \in Jobs :
          LET engine_raised == pc[j] = "engine" /\ pipeline_run.state \in {"abort", "error"}
              write_raised  == /\ pc[j] = "engine" /\ pipeline_run.state = "returned"
                               /\ db'[j].status # COMPLETED
              prep_raised   == pc[j] \in {"idle", "waiting"} /\ j \in registered'
              err == IF engine_raised
                     THEN (IF pipeline_run.state = "abort" THEN "abort" ELSE "engine_error")
                     ELSE IF write_raised THEN "store_error" ELSE "prep_error"
          IN  (/\ pc[j] # "done" /\ pc'[j] = "done"
               /\ engine_raised \/ write_raised \/ prep_raised
               /\ RowExists(db, j)
               /\ exit_path'[j] # "handler_write_failed")
              => /\ db'[j] = [status |-> FAILED, error_msg |-> err]
                 /\ Cardinality(FailedUpdates(published'[j])) = 1
                 /\ published'[j][Len(published'[j])] = Ev("job_update", FAILED, 0, 0, err)
                 /\ active_jobs'[j] = "absent"]_vars

C14_Witness ==
    \E j, k \in Jobs :
        /\ pc[j] = "done" /\ db[j] = [status |-> FAILED, error_msg |-> "abort"]
        /\ Cardinality(FailedUpdates(published[j])) = 1
        /\ pc[k] = "done" /\ db[k] = [status |-> FAILED, error_msg |-> "prep_error"]
        /\ Cardinality(FailedUpdates(published[k])) = 1

\* C11: a publish (or shutdown) step appends its message to every channel
\* registered at that moment, except to one whose buffer is full, which is
\* left as it is; no other channel is touched.
C11_PublishReachesEveryChannel ==
    [][Len(log') = Len(log) + 1 =>
          \A c \in 1..Len(queues) :
              queues'[c] = IF c \in Range(subscribers) /\ ~ChannelFull(queues[c])
                           THEN Append(queues[c], log'[Len(log')])
                           ELSE queues[c]]_vars

C11_Witness ==
    /\ Len(subscribers) = 2
    /\ log # <<>>
    /\ \A c \in Range(subscribers) : queues[c] # <<>> /\ queues[c][Len(queues[c])] = log[Len(log)]

\* C17: a channel holds exactly the messages published between its
\* subscribe() and its unsubscribe(), in publish order; a step that publishes
\* nothing changes no channel's content; and a channel leaves subscribers only
\* by its own unsubscribe.
C17_ChannelWindow ==
    \A c \in 1..Len(queues) :
        queues[c] = SubSeq(log, sub_at[c] + 1,
                           IF unsub_at[c] = <<>> THEN Len(log) ELSE unsub_at[c][1])

C17_SubscriptionsIndependent ==
    [][/\ C17_ChannelWindow'
       /\ log' = log => \A c \in 1..Len(queues) : queues'[c] = queues[c]
       /\ \A c \in Range(subscribers) \ Range(subscribers') :
              /\ subscribers' = Remove(subscribers, c)
              /\ unsub_at[c] = <<>> /\ unsub_at'[c] = <<Len(log)>>]_vars

C17_Witness ==
    \E c, e \in 1..Len(queues) :
        /\ sub_at[c] > 0 /\ unsub_at[c] # <<>> /\ unsub_at[c][1] < Len(log)
        /\ Len(queues[c]) = 1
        /\ e # c /\ Len(queues[e]) = Len(log)

\* C18 as stated: the shutdown broadcast reaches every registered channel and
\* empties the registered set.
C18_ShutdownClearsChannels ==
    [][(Len(log') = Len(log) + 1 /\ log'[Len(log')].event = "shutdown")
       => /\ queues' = shutdown_puts(subscribers, queues, log'[Len(log')])
          /\ subscribers' = <<>>]_vars

\* C18, amended: the shutdown broadcast reaches every registered channel and
\* leaves the registered set as it is; a channel leaves the set only by
\* unsubscribe, which publishes nothing.
C18_ShutdownKeepsChannels ==
    [][/\ (Len(log') = Len(log) + 1 /\ log'[Len(log')].event = "shutdown")
          => /\ \A c \in Range(subscribers) :
                    queues'[c] = Append(queues[c], Message("shutdown", Len(log) + 1))
             /\ subscribers' = subscribers
       /\ Range(subscribers) \ Range(subscribers') # {}
          => log' = log /\ Len(subscribers') = Len(subscribers) - 1]_vars

C18_Witness ==
    \E c \in Range(subscribers) :
        /\ Len(queues[c]) >= 2
        /\ queues[c][Len(queues[c]) - 1].event = "shutdown"
        /\ queues[c][Len(queues[c])].event # "shutdown"

\* C15: the placement is determined by the capacity list: with fewer than two
\* accelerators, single mode, the codec on the cpu (off the accelerator) and
\* lazily loaded; with two or more, multi mode, the primary component on an
\* accelerator of greatest capacity and the codec on one of least capacity.
C15_PlacementByCapacity ==
    pipeline.loaded =>
        LET n == Len(gpu_memories)
            mula == pipeline.device.index + 1
            codec == pipeline.codec_device.index + 1
        IN  IF n < 2
            THEN /\ gpu_mode = "single"
                 /\ pipeline.device = TorchDevice("cuda", -1)
                 /\ pipeline.codec_device.type = "cpu"
                 /\ pipeline.lazy_load
            ELSE /\ gpu_mode = "multi"
                 /\ pipeline.device.type = "cuda" /\ mula \in 1..n
                 /\ pipeline.codec_device.type = "cuda" /\ codec \in 1..n
                 /\ \A k \in 1..n : gpu_memories[k] <= gpu_memories[mula]
                 /\ \A k \in 1..n : gpu_memories[k] >= gpu_memories[codec]

C15_Witness ==
    /\ pipeline.loaded
    /\ gpu_memories = <<2, 1, 3>>
    /\ gpu_mode = "multi"
    /\ pipeline.device = TorchDevice("cuda", 2)
    /\ pipeline.codec_device = TorchDevice("cuda", 1)

\* C16 as stated: with a readable reference clip the window handed to the
\* engine is influence/100 x 10 s clamped to the clip: at least the 1 s floor
\* and at most the clip's duration.
C16_WindowWithinClip ==
    (pipeline_inputs.job = PrepJob /\ pipeline_inputs.ref_audio) =>
        /\ pipeline_inputs.muq_segment_sec >= MinSegmentTenths
        /\ pipeline_inputs.muq_segment_sec <= request[PrepJob].clip_tenths

\* C16, amended: the window is never below the 1 s floor; it is the scaled
\* influence when that lies between the floor and the clip's duration; it
\* never exceeds the clip's duration when the clip lasts at least 1 s; for a
\* shorter clip the floor wins and the window is 1 s.
C16_WindowClamped ==
    (pipeline_inputs.job = PrepJob /\ pipeline_inputs.ref_audio) =>
        LET w == pipeline_inputs.muq_segment_sec
            clip == request[PrepJob].clip_tenths
            scaled == (request[PrepJob].style_influence * MaxSegmentTenths) \div MaxInfluence
        IN  /\ w >= MinSegmentTenths
            /\ w <= MaxSegmentTenths
            /\ (MinSegmentTenths <= scaled /\ scaled <= clip) => w = scaled
            /\ clip >= MinSegmentTenths => w <= clip
            /\ clip >= MinSegmentTenths /\ scaled > clip => w = clip
            /\ clip < MinSegmentTenths => w = MinSegmentTenths

C16_Witness ==
    /\ pipeline_inputs.job = PrepJob /\ pipeline_inputs.ref_audio
    /\ request[PrepJob].style_influence = 50 /\ request[PrepJob].clip_tenths = 200
    /\ pipeline_inputs.muq_segment_sec = 50

\* C19: a failing best-effort step (title generation or its model lookup, the
\* load of the parent's state, the read of the clip's metadata) does not keep
\* the job from reaching the engine: the step's default is used ("Untitled
\* Track", "llama3", no history tokens, the 10 s window), and the job ends
\* Completed when the engine returns and Failed when it raises.
C19_BestEffortNeverFails ==
    [][LET j == PrepJob
           r == request[PrepJob]
       IN  /\ (pc[j] = "idle" /\ pc'[j] # "idle" /\ RowExists(db, j))
              => /\ pc'[j] = "engine" /\ pipeline_run'.state = "running"
                 /\ pipeline_inputs'.job = j
                 /\ r.title = "raises" => auto_title'[j].title = "Untitled Track"
                 /\ (~r.llm_model /\ r.models = "raises")
                       => auto_title'[j].model_to_use = "llama3"
                 /\ (r.parent_job_id /\ r.token_file \in {"missing", "unreadable"})
                       => pipeline_inputs'.history_tokens = "none"
                 /\ (r.ref_audio_id /\ r.ref_file = "found" /\ r.ref_info = "raises")
                       => /\ pipeline_inputs'.ref_audio
                          /\ pipeline_inputs'.muq_segment_sec = FallbackSegmentTenths
           /\ (pc[j] = "engine" /\ pc'[j] = "done")
              => db'[j].status = IF pipeline_run.state = "returned" THEN COMPLETED ELSE FAILED]_vars

C19_Witness ==
    LET r == request[PrepJob]
    IN  /\ r.title = "raises" /\ r.models = "raises"
        /\ r.parent_job_id /\ r.token_file = "unreadable"
        /\ r.ref_file = "found" /\ r.ref_info = "raises"
        /\ pc[PrepJob] = "done" /\ db[PrepJob].status = COMPLETED
        /\ auto_title[PrepJob] = [title |-> "Untitled Track", model_to_use |-> "llama3"]
        /\ pipeline_inputs.history_tokens = "none"
        /\ pipeline_inputs.muq_segment_sec = FallbackSegmentTenths

\* C20: the engine is invoked with the parent's saved state when the request
\* names a parent whose token file exists, and without history tokens (and
\* without failing) when the file is missing.
C20_ParentStatePassed ==
    pipeline_inputs.job = PrepJob =>
        LET r == request[PrepJob]
        IN  /\ (r.parent_job_id /\ r.token_file = "present")
                  => pipeline_inputs.history_tokens = "parent_state"
            /\ (r.parent_job_id /\ r.token_file = "missing")
                  => pipeline_inputs.history_tokens = "none" /\ PrepJob \in invoked

\* C26: in multi mode the primary component and the codec are on two
\* distinct accelerators, whatever the capacities, equal ones included.
C26_DistinctDevices ==
    (pipeline.loaded /\ Len(gpu_memories) >= 2) =>
        pipeline.device # pipeline.codec_device

\* C22: active_jobs holds at most one id; no id is in both job_queue and
\* active_jobs; an id in active_jobs is that of the task holding gpu_lock,
\* whose row is Processing or deleted; the task holding gpu_lock is not in
\* job_queue.
ActiveIds == {j \in Jobs : active_jobs[j] # "absent"}

C22_QueueAndRegistryDisjoint ==
    /\ Cardinality(ActiveIds) <= 1
    /\ ActiveIds \cap Range(job_queue) = {}
    /\ \A j \in ActiveIds :
          /\ pc[j] = "engine" /\ gpu_lock.locked
          /\ db[j].status \in {PROCESSING, DELETED}
    /\ \A j \in Holders : j \notin Range(job_queue)

C22_Witness ==
    \E j, k \in Jobs :
        /\ active_jobs[j] = "set" /\ pc[j] = "engine" /\ db[j].status = PROCESSING
        /\ job_queue = <<k>> /\ pc[k] = "waiting"

\* C24: the lifecycle events of a job come in the order job_queued (first,
\* once), job_update processing (at most once), then at most one terminal
\* job_update (completed or failed); a completed event follows a processing
\* event; a job_update with status s is published only when a write of s has
\* been committed for the job; and the completed event carries the audio path
\* and title that were persisted.
UpdatesWith(p, st) == {i \in 1..Len(p) : p[i].type = "job_update" /\ p[i].status = st}

C24_LifecycleEventOrder ==
    \A j \in Jobs :
        LET p == published[j]
            queued == {i \in 1..Len(p) : p[i].type = "job_queued"}
            processing == UpdatesWith(p, PROCESSING)
            terminal == UpdatesWith(p, COMPLETED) \cup UpdatesWith(p, FAILED)
        IN  /\ p # <<>> => queued = {1}
            /\ Cardinality(processing) <= 1
            /\ Cardinality(terminal) <= 1
            /\ \A i \in processing : \A k \in terminal : i < k
            /\ UpdatesWith(p, COMPLETED) # {} => processing # {}
            /\ \A i \in JobUpdates(j) :
                  \E w \in 1..Len(writes[j]) : writes[j][w][2] = p[i].status
            /\ UpdatesWith(p, COMPLETED) # {}
                  => /\ artifacts[j].row = [audio_path |-> AudioPath("/audio/", j),
                                            title |-> auto_title[j].title]
                     /\ artifacts[j].payload.final_audio_path = artifacts[j].row.audio_path
                     /\ artifacts[j].payload.final_title = artifacts[j].row.title

C24_Witness ==
    \E j, k \in Jobs :
        /\ Len(published[j]) = 5
        /\ published[j][2] = Ev("job_update", PROCESSING, 0, 0, "")
        /\ published[j][4] = Ev("job_update", COMPLETED, 0, 0, "")
        /\ artifacts[j].payload.final_title = "generated"
        /\ UpdatesWith(published[k], FAILED) # {}

\* C23: every submitted job whose record is not deleted eventually has a
\* persisted terminal status, Completed or Failed, with the matching terminal
\* job_update published (a cancelled job too: it ends Failed or Completed).
Terminal(j) ==
    /\ db[j].status \in {COMPLETED, FAILED}
    /\ UpdatesWith(published[j], db[j].status) # {}

Loading == {c \in InitCalls : init_pc[c] = "loading"}

C21_LoadFailureSurfaced ==
    [][/\ Cardinality(Loading') <= 1
       /\ is_loading' = (Loading' # {})
       /\ \A c \in InitCalls :
             (init_pc[c] # "loading" /\ init_pc'[c] = "loading")
             => ~pipeline.loaded /\ ~is_loading
       /\ \A c \in InitCalls :
             (init_pc[c] = "loading" /\ init_pc'[c] # "loading" /\ ~pipeline'.loaded)
             => /\ init_pc'[c] = "raised"
                /\ pipeline' = pipeline
                /\ ~is_loading'
                /\ Loading' = {}]_vars

C21_Witness ==
    \E c, d \in InitCalls :
        /\ init_pc[c] = "raised" /\ init_pc[d] = "skipped"
        /\ ~pipeline.loaded /\ ~is_loading

\* C25: the job_progress events the engine emits are published in the order
\* emitted, each before the job's terminal job_update; once the task has
\* ended, none of them is still waiting in the loop.
EngineProgress(p) == {i \in 1..Len(p) : p[i].type = "job_progress" /\ p[i].status = "engine"}

C25_ProgressBeforeTerminal ==
    \A j \in Jobs :
        LET p == published[j]
            terminal == UpdatesWith(p, COMPLETED) \cup UpdatesWith(p, FAILED)
        IN  /\ \A i \in EngineProgress(p) : \A k \in terminal : i < k
            /\ \A i, k \in EngineProgress(p) : i < k => p[i].position < p[k].position
            /\ pc[j] = "done" => \A i \in 1..Len(loop_ready) : loop_ready[i].job # j

C25_Witness ==
    \E j, k \in Jobs :
        /\ pc[j] = "done"
        /\ Cardinality(EngineProgress(published[j])) = 2
        /\ UpdatesWith(published[j], COMPLETED) # {}
        /\ pc[k] = "done"
        /\ EngineProgress(published[k]) # {}
        /\ UpdatesWith(published[k], FAILED) # {}

====
